---- MODULE Spec2Model ----
(***************************************************************************)
(* Smart Caller Backend (smartcaller_backend.py): lead classification,     *)
(* scoring, aggregation and the last-summary slot behind the two API       *)
(* endpoints.                                                              *)
(*                                                                         *)
(* Representation.  A Python str is a sequence of one-character strings,   *)
(* so that substring tests, prefixes, lower-casing and the regular         *)
(* expressions of the lookup tables are computed and not assumed.  The     *)
(* Python value None and the pandas value NaN (an empty spreadsheet cell)  *)
(* are the one-element sequences None and NaN, whose element is not a      *)
(* character.  A dict is a sequence of [k, v] entries in insertion order.  *)
(***************************************************************************)
EXTENDS Integers, Sequences, FiniteSets, Bags, TLC

VARIABLES
    now,            \* datetime.now(timezone.utc): [day, sec]
    pc,             \* position of the caller: which call has returned
    fn,             \* function called directly: "parse_title" or "score_fit"
    args,           \* its arguments
    ret,            \* its return value
    df,             \* the DataFrame handed to classify_leads
    leads,          \* classify_leads(df)
    summary,        \* summarize(leads)
    df2,            \* df with its rows shuffled
    leads2,         \* classify_leads(df2)
    LAST_SUMMARY,   \* module global _LAST_SUMMARY
    response,       \* response of the last HTTP request
    lastImported    \* history: summary computed by the last successful import

vars == <<now, pc, fn, args, ret, df, leads, summary, df2, leads2,
          LAST_SUMMARY, response, lastImported>>

-----------------------------------------------------------------------------
(* Python values *)

None == <<"None">>
NaN == <<"NaN">>
Nil == [none |-> TRUE]      \* None where a dict is expected

IsStr(x) == x # None /\ x # NaN

\* bool(x) for x a str, None or NaN: float('nan') is truthy
truthy(x) == IF x = None THEN FALSE ELSE IF x = NaN THEN TRUE ELSE x # <<>>

\* x or y
Or(x, y) == IF truthy(x) THEN x ELSE y

\* str(x)
str(x) == IF x = NaN THEN <<"n","a","n">> ELSE IF x = None THEN <<"N","o","n","e">> ELSE x

Min(S) == CHOOSE x \in S : \A y \in S : x <= y

-----------------------------------------------------------------------------
(* str methods *)

LOWER == <<"a","b","c","d","e","f","g","h","i","j","k","l","m","n","o","p","q",
           "r","s","t","u","v","w","x","y","z","é","è","à","ç">>
UPPER == <<"A","B","C","D","E","F","G","H","I","J","K","L","M","N","O","P","Q",
           "R","S","T","U","V","W","X","Y","Z","É","È","À","Ç">>
DIGITS == <<"0","1","2","3","4","5","6","7","8","9">>
WHITESPACE == {" ", "\t", "\n"}

Range(f) == {f[i] : i \in DOMAIN f}

LowerMap == [c \in Range(UPPER) |-> LOWER[CHOOSE i \in DOMAIN UPPER : UPPER[i] = c]]
UpperMap == [c \in Range(LOWER) |-> UPPER[CHOOSE i \in DOMAIN LOWER : LOWER[i] = c]]
DigitVal == [c \in Range(DIGITS) |-> (CHOOSE i \in DOMAIN DIGITS : DIGITS[i] = c) - 1]

\* \w of the re module on str patterns
WordChars == Range(LOWER) \cup Range(UPPER) \cup Range(DIGITS) \cup {"_"}

lower(s) == [i \in 1..Len(s) |-> IF s[i] \in DOMAIN LowerMap THEN LowerMap[s[i]] ELSE s[i]]

capitalize(s) ==
    [i \in 1..Len(s) |->
        IF i = 1
        THEN IF s[i] \in DOMAIN UpperMap THEN UpperMap[s[i]] ELSE s[i]
        ELSE IF s[i] \in DOMAIN LowerMap THEN LowerMap[s[i]] ELSE s[i]]

\* s[i:].startswith(p), i counted from 1
MatchAt(s, p, i) ==
    /\ i + Len(p) - 1 <= Len(s)
    /\ \A k \in 1..Len(p) : s[i + k - 1] = p[k]

startswith(s, p) == MatchAt(s, p, 1)

\* sub in s
contains(s, sub) == \E i \in 1..(Len(s) - Len(sub) + 1) : MatchAt(s, sub, i)

\* s.find(sub) counted from 1, 0 when absent
find(s, sub) ==
    LET hits == {i \in 1..(Len(s) - Len(sub) + 1) : MatchAt(s, sub, i)}
    IN  IF hits = {} THEN 0 ELSE Min(hits)

strip(s) ==
    LET keep == {i \in 1..Len(s) : s[i] \notin WHITESPACE}
    IN  IF keep = {} THEN <<>>
        ELSE SubSeq(s, Min(keep), CHOOSE j \in keep : \A k \in keep : k <= j)

\* s.replace(old, new), old non-empty
RECURSIVE replace(_, _, _)
replace(s, old, new) ==
    LET i == find(s, old)
    IN  IF i = 0 THEN s
        ELSE SubSeq(s, 1, i - 1) \o new \o replace(SubSeq(s, i + Len(old), Len(s)), old, new)

\* s.split(sep) for a one-character sep
RECURSIVE split(_, _)
split(s, sep) ==
    LET i == find(s, <<sep>>)
    IN  IF i = 0 THEN <<s>>
        ELSE <<SubSeq(s, 1, i - 1)>> \o split(SubSeq(s, i + 1, Len(s)), sep)

RECURSIVE join(_, _)
join(sep, parts) ==
    IF Len(parts) = 0 THEN <<>>
    ELSE IF Len(parts) = 1 THEN parts[1]
    ELSE parts[1] \o sep \o join(sep, Tail(parts))

-----------------------------------------------------------------------------
(* re.search.  A pattern is compiled to [wb, alts]: the alternatives it    *)
(* can match as literal texts, and whether it is wrapped in \b ... \b.     *)
(* A pattern without metacharacters is its own single alternative.         *)

\* \b at the position before s[i], i in 1..Len(s)+1
WordBoundary(s, i) ==
    (i > 1 /\ s[i - 1] \in WordChars) # (i <= Len(s) /\ s[i] \in WordChars)

re_search(pat, t) ==
    \E alt \in pat.alts :
        \E i \in 1..(Len(t) - Len(alt) + 1) :
            /\ MatchAt(t, alt, i)
            /\ pat.wb => WordBoundary(t, i) /\ WordBoundary(t, i + Len(alt))

\* r"\b(a|b|...)\b"
Words(alts) == [wb |-> TRUE, alts |-> alts]

\* a pattern that is plain text
Literal(text) == [wb |-> FALSE, alts |-> {text}]

-----------------------------------------------------------------------------
(* Config & Constants *)

TARGET_PERSONAS == {<<"C","E","O">> (* "CEO" *), <<"C","F","O">> (* "CFO" *), <<"C","O","O">> (* "COO" *), <<"M","a","r","k","e","t","i","n","g">> (* "Marketing" *), <<"S","a","l","e","s">> (* "Sales" *)}
PRIORITY_COUNTRIES == {<<"F","R">> (* "FR" *), <<"B","E">> (* "BE" *), <<"C","H">> (* "CH" *)}
FREE_EMAIL_DOMAINS ==
    {<<"g","m","a","i","l",".","c","o","m">> (* "gmail.com" *), <<"y","a","h","o","o",".","c","o","m">> (* "yahoo.com" *), <<"h","o","t","m","a","i","l",".","c","o","m">> (* "hotmail.com" *), <<"o","u","t","l","o","o","k",".","c","o","m">> (* "outlook.com" *),
     <<"l","i","v","e",".","c","o","m">> (* "live.com" *), <<"i","c","l","o","u","d",".","c","o","m">> (* "icloud.com" *), <<"p","r","o","t","o","n",".","m","e">> (* "proton.me" *), <<"p","r","o","t","o","n","m","a","i","l",".","c","o","m">> (* "protonmail.com" *)}

SENIORITY_MAP == <<
    [pat |-> Words({<<"o","w","n","e","r">> (* "owner" *), <<"f","o","u","n","d","e","r">> (* "founder" *), <<"c","o","f","o","u","n","d","e","r">> (* "cofounder" *), <<"c","o","-","f","o","u","n","d","e","r">> (* "co-founder" *),
                    <<"p","a","r","t","n","e","r">> (* "partner" *), <<"p","r","i","n","c","i","p","a","l">> (* "principal" *)}),
     lab |-> <<"e","x","e","c">> (* "exec" *), sc |-> 3],
    [pat |-> Words({<<"c","e","o">> (* "ceo" *), <<"c","t","o">> (* "cto" *), <<"c","f","o">> (* "cfo" *), <<"c","o","o">> (* "coo" *), <<"c","m","o">> (* "cmo" *), <<"v","p">> (* "vp" *),
                    <<"v","i","c","e"," ","p","r","e","s","i","d","e","n","t">> (* "vice president" *), <<"h","e","a","d"," ","o","f">> (* "head of" *)}),
     lab |-> <<"e","x","e","c">> (* "exec" *), sc |-> 3],
    [pat |-> Words({<<"d","i","r","e","c","t","o","r">> (* "director" *), <<"d","i","r","e","c","t","o","r"," ","o","f">> (* "director of" *), <<"d","i","r","e","c","t","e","u","r">> (* "directeur" *), <<"d","i","r","e","c","t","r","i","c","e">> (* "directrice" *)}),
     lab |-> <<"d","i","r","e","c","t","o","r">> (* "director" *), sc |-> 2],
    [pat |-> Words({<<"m","a","n","a","g","e","r">> (* "manager" *), <<"l","e","a","d">> (* "lead" *), <<"r","e","s","p","o","n","s","a","b","l","e">> (* "responsable" *), <<"c","h","e","f"," ","d","e">> (* "chef de" *)}),
     lab |-> <<"m","a","n","a","g","e","r">> (* "manager" *), sc |-> 1],
    [pat |-> Words({<<"i","n","t","e","r","n">> (* "intern" *), <<"s","t","a","g","i","a","i","r","e">> (* "stagiaire" *), <<"a","s","s","i","s","t","a","n","t">> (* "assistant" *), <<"j","u","n","i","o","r">> (* "junior" *)}),
     lab |-> <<"j","u","n","i","o","r">> (* "junior" *), sc |-> 0] >>

PERSONA_MAP == <<
    [pat |-> Words({<<"c","f","o">> (* "cfo" *), <<"f","i","n","a","n","c","e">> (* "finance" *), <<"a","c","c","o","u","n","t","i","n","g">> (* "accounting" *), <<"c","o","m","p","t","a","b","l","e">> (* "comptable" *), <<"d","a","f">> (* "daf" *)}),
     p |-> <<"C","F","O">> (* "CFO" *)],
    [pat |-> Words({<<"c","o","o">> (* "coo" *), <<"o","p","s">> (* "ops" *), <<"o","p","e","r","a","t","i","o","n">> (* "operation" *), <<"l","o","g","i","s","t","i","c","s">> (* "logistics" *), <<"l","o","g","i","s","t","i","q","u","e">> (* "logistique" *), <<"s","u","p","p","l","y">> (* "supply" *)}),
     p |-> <<"C","O","O">> (* "COO" *)],
    [pat |-> Words({<<"c","m","o">> (* "cmo" *), <<"m","a","r","k","e","t","i","n","g">> (* "marketing" *), <<"g","r","o","w","t","h">> (* "growth" *), <<"d","e","m","a","n","d"," ","g","e","n">> (* "demand gen" *), <<"a","c","q","u","i","s","i","t","i","o","n">> (* "acquisition" *)}),
     p |-> <<"M","a","r","k","e","t","i","n","g">> (* "Marketing" *)],
    [pat |-> Words({<<"c","t","o">> (* "cto" *), <<"t","e","c","h">> (* "tech" *), <<"d","e","v","e","l","o","p","e","r">> (* "developer" *), <<"e","n","g","i","n","e","e","r">> (* "engineer" *), <<"i","t">> (* "it" *), <<"d","e","v","o","p","s">> (* "devops" *), <<"s","r","e">> (* "sre" *)}),
     p |-> <<"T","e","c","h">> (* "Tech" *)],
    [pat |-> Words({<<"c","e","o">> (* "ceo" *), <<"f","o","u","n","d","e","r">> (* "founder" *), <<"o","w","n","e","r">> (* "owner" *), <<"p","d","g">> (* "pdg" *), <<"g","é","r","a","n","t">> (* "gérant" *)}),
     p |-> <<"C","E","O">> (* "CEO" *)],
    [pat |-> Words({<<"s","a","l","e","s">> (* "sales" *), <<"c","o","m","m","e","r","c","i","a","l">> (* "commercial" *), <<"a","c","c","o","u","n","t"," ","e","x","e","c","u","t","i","v","e">> (* "account executive" *), <<"a","e">> (* "ae" *),
                    <<"b","u","s","i","n","e","s","s"," ","d","e","v","e","l","o","p","e","r">> (* "business developer" *), <<"b","d","m">> (* "bdm" *)}),
     p |-> <<"S","a","l","e","s">> (* "Sales" *)],
    [pat |-> Words({<<"c","u","s","t","o","m","e","r"," ","s","u","c","c","e","s","s">> (* "customer success" *), <<"c","s">> (* "cs" *), <<"s","u","p","p","o","r","t"," ","c","l","i","e","n","t">> (* "support client" *), <<"s","u","c","c","e","s","s"," ","m","a","n","a","g","e","r">> (* "success manager" *)}),
     p |-> <<"C","u","s","t","o","m","e","r"," ","S","u","c","c","e","s","s">> (* "Customer Success" *)],
    [pat |-> Words({<<"p","r","o","d","u","c","t">> (* "product" *), <<"p","m">> (* "pm" *), <<"p","r","o","d","u","c","t"," ","m","a","n","a","g","e","r">> (* "product manager" *)}),
     p |-> <<"P","r","o","d","u","c","t">> (* "Product" *)],
    [pat |-> Words({<<"d","a","t","a">> (* "data" *), <<"a","n","a","l","y","t","i","c","s">> (* "analytics" *), <<"b","i">> (* "bi" *), <<"d","a","t","a"," ","s","c","i","e","n","t","i","s","t">> (* "data scientist" *), <<"d","a","t","a"," ","e","n","g","i","n","e","e","r">> (* "data engineer" *)}),
     p |-> <<"D","a","t","a">> (* "Data" *)],
    [pat |-> Words({<<"s","e","c","u","r","i","t","y">> (* "security" *), <<"s","e","c","o","p","s">> (* "secops" *), <<"c","i","s","o">> (* "ciso" *), <<"i","s","o"," ","2","7","0","0","1">> (* "iso 27001" *)}),
     p |-> <<"S","e","c","u","r","i","t","y">> (* "Security" *)],
    [pat |-> Words({<<"l","e","g","a","l">> (* "legal" *), <<"j","u","r","i","d","i","q","u","e">> (* "juridique" *), <<"a","v","o","c","a","t">> (* "avocat" *), <<"c","o","u","n","s","e","l">> (* "counsel" *)}),
     p |-> <<"L","e","g","a","l">> (* "Legal" *)],
    [pat |-> Words({<<"h","r">> (* "hr" *), <<"t","a","l","e","n","t">> (* "talent" *), <<"r","e","c","r","u","i","t">> (* "recruit" *), <<"r","h">> (* "rh" *), <<"r","e","c","r","u","t","e","u","r">> (* "recruteur" *), <<"r","e","c","r","u","t","e","m","e","n","t">> (* "recrutement" *)}),
     p |-> <<"H","R">> (* "HR" *)],
    [pat |-> Words({<<"p","u","r","c","h","a","s","i","n","g">> (* "purchasing" *), <<"a","c","h","a","t">> (* "achat" *), <<"p","r","o","c","u","r","e","m","e","n","t">> (* "procurement" *), <<"a","c","h","e","t","e","u","r">> (* "acheteur" *)}),
     p |-> <<"P","r","o","c","u","r","e","m","e","n","t">> (* "Procurement" *)] >>

INTENT_KEYWORDS ==
    [demo |-> <<<<"d","e","m","o">> (* "demo" *), <<"d","é","m","o">> (* "démo" *), <<"b","o","o","k"," ","a"," ","c","a","l","l">> (* "book a call" *), <<"b","o","o","k"," ","a"," ","d","e","m","o">> (* "book a demo" *), <<"r","d","v">> (* "rdv" *), <<"c","a","l","l">> (* "call" *),
                <<"m","e","e","t","i","n","g">> (* "meeting" *), <<"s","c","h","e","d","u","l","e">> (* "schedule" *), <<"c","o","n","t","a","c","t"," ","m","e">> (* "contact me" *), <<"c","o","n","t","a","c","t","e","z","-","m","o","i">> (* "contactez-moi" *),
                <<"p","r","i","s","e"," ","d","e"," ","r","e","n","d","e","z","-","v","o","u","s">> (* "prise de rendez-vous" *), <<"e","s","s","a","i"," ","g","r","a","t","u","i","t">> (* "essai gratuit" *), <<"t","r","i","a","l">> (* "trial" *)>>,
     resource |-> <<<<"e","b","o","o","k">> (* "ebook" *), <<"g","u","i","d","e">> (* "guide" *), <<"c","h","e","c","k","l","i","s","t">> (* "checklist" *), <<"w","h","i","t","e","p","a","p","e","r">> (* "whitepaper" *), <<"w","e","b","i","n","a","r">> (* "webinar" *),
                    <<"r","e","p","l","a","y">> (* "replay" *), <<"r","e","s","s","o","u","r","c","e">> (* "ressource" *), <<"l","e","a","d"," ","m","a","g","n","e","t">> (* "lead magnet" *), <<"t","e","m","p","l","a","t","e">> (* "template" *)>>]

URGENCY_KW == <<<<"u","r","g","e","n","t">> (* "urgent" *), <<"a","s","a","p">> (* "asap" *), <<"d","è","s"," ","q","u","e"," ","p","o","s","s","i","b","l","e">> (* "dès que possible" *), <<"r","a","p","i","d","e","m","e","n","t">> (* "rapidement" *),
                <<"a","u"," ","p","l","u","s"," ","v","i","t","e">> (* "au plus vite" *), <<"n","o","w">> (* "now" *), <<"t","h","i","s"," ","w","e","e","k">> (* "this week" *), <<"c","e"," ","j","o","u","r">> (* "ce jour" *)>>

SOURCE_WEIGHTS == <<
    [k |-> <<"m","e","t","a">> (* "meta" *), v |-> 6], [k |-> <<"f","a","c","e","b","o","o","k">> (* "facebook" *), v |-> 6], [k |-> <<"i","n","s","t","a","g","r","a","m">> (* "instagram" *), v |-> 6],
    [k |-> <<"g","o","o","g","l","e">> (* "google" *), v |-> 7], [k |-> <<"a","d","w","o","r","d","s">> (* "adwords" *), v |-> 7], [k |-> <<"g","a","d","s">> (* "gads" *), v |-> 7],
    [k |-> <<"l","i","n","k","e","d","i","n">> (* "linkedin" *), v |-> 5], [k |-> <<"t","y","p","e","f","o","r","m">> (* "typeform" *), v |-> 4], [k |-> <<"w","e","b","f","l","o","w">> (* "webflow" *), v |-> 3] >>

COUNTRY_PREFIX == <<
    [k |-> <<"F","R">> (* "FR" *), v |-> <<"+","3","3">> (* "+33" *)], [k |-> <<"B","E">> (* "BE" *), v |-> <<"+","3","2">> (* "+32" *)], [k |-> <<"C","H">> (* "CH" *), v |-> <<"+","4","1">> (* "+41" *)],
    [k |-> <<"E","S">> (* "ES" *), v |-> <<"+","3","4">> (* "+34" *)], [k |-> <<"I","T">> (* "IT" *), v |-> <<"+","3","9">> (* "+39" *)], [k |-> <<"D","E">> (* "DE" *), v |-> <<"+","4","9">> (* "+49" *)],
    [k |-> <<"U","K">> (* "UK" *), v |-> <<"+","4","4">> (* "+44" *)], [k |-> <<"U","S">> (* "US" *), v |-> <<"+","1">> (* "+1" *)] >>

\* d.get(key, default) on a dict held as a sequence of [k, v] entries
dict_get(d, key, default) ==
    IF \E i \in DOMAIN d : d[i].k = key
    THEN d[CHOOSE i \in DOMAIN d : d[i].k = key].v
    ELSE default

-----------------------------------------------------------------------------
(* Helpers *)

OTHER_SENIORITY == <<"o","t","h","e","r">> (* "other" *)
OTHER_PERSONA == <<"O","t","h","e","r">> (* "Other" *)

\* The persona loop calls re.search(p, t) with the label p as its pattern.
parse_title(title) ==
    LET t == lower(Or(title, <<>>))
        shits == {i \in DOMAIN SENIORITY_MAP : re_search(SENIORITY_MAP[i].pat, t)}
        phits == {i \in DOMAIN PERSONA_MAP : re_search(Literal(PERSONA_MAP[i].p), t)}
        seniority == IF shits = {} THEN OTHER_SENIORITY ELSE SENIORITY_MAP[Min(shits)].lab
        sscore == IF shits = {} THEN 0 ELSE SENIORITY_MAP[Min(shits)].sc
        persona == IF phits = {} THEN OTHER_PERSONA ELSE PERSONA_MAP[Min(phits)].p
    IN  <<seniority, sscore, persona>>

\* detect_intent reading the source and the form name only: a faulty variant
detect_intent_no_message(source, form_name, message) ==
    LET s == lower(join(<<" ">>, <<Or(source, <<>>), Or(form_name, <<>>)>>))
    IN  IF \E i \in DOMAIN INTENT_KEYWORDS.demo : contains(s, INTENT_KEYWORDS.demo[i])
        THEN <<"d","e","m","o">> (* "demo" *)
        ELSE IF \E i \in DOMAIN INTENT_KEYWORDS.resource :
                    contains(s, INTENT_KEYWORDS.resource[i])
        THEN <<"r","e","s","o","u","r","c","e">> (* "resource" *)
        ELSE <<"o","t","h","e","r">> (* "other" *)

detect_intent(source, form_name, message) ==
    LET s == lower(join(<<" ">>, <<Or(source, <<>>), Or(form_name, <<>>), Or(message, <<>>)>>))
    IN  IF \E i \in DOMAIN INTENT_KEYWORDS.demo : contains(s, INTENT_KEYWORDS.demo[i])
        THEN <<"d","e","m","o">> (* "demo" *)
        ELSE IF \E i \in DOMAIN INTENT_KEYWORDS.resource :
                    contains(s, INTENT_KEYWORDS.resource[i])
        THEN <<"r","e","s","o","u","r","c","e">> (* "resource" *)
        ELSE <<"o","t","h","e","r">> (* "other" *)

\* email.split("@",1)[1].lower().strip(); any exception gives ""
email_domain(email) ==
    IF ~IsStr(email) \/ find(email, <<"@">>) = 0 THEN <<>>
    ELSE strip(lower(SubSeq(email, find(email, <<"@">>) + 1, Len(email))))

is_business_email(email) ==
    LET d == email_domain(email)
    IN  d # <<>> /\ d \notin FREE_EMAIL_DOMAINS

\* tldextract.extract(d).domain: the label left of the longest public suffix
\* of d; the last label when d ends in no public suffix.  The suffix list is
\* the part of the Public Suffix List that the e-mail domains below need.
PUBLIC_SUFFIXES == {<<"c","o","m">> (* "com" *), <<"i","o">> (* "io" *), <<"f","r">> (* "fr" *), <<"m","e">> (* "me" *), <<"u","k">> (* "uk" *), <<"c","o",".","u","k">> (* "co.uk" *)}

tld_domain(d) ==
    LET labels == split(d, ".")
        n == Len(labels)
        cut == {k \in 1..n : join(<<".">>, SubSeq(labels, k, n)) \in PUBLIC_SUFFIXES}
    IN  IF cut = {} THEN labels[n]
        ELSE IF Min(cut) = 1 THEN <<>>
        ELSE labels[Min(cut) - 1]

domain_to_company(email, fallback_company) ==
    LET d == email_domain(email)
    IN  IF d = <<>> THEN fallback_company
        ELSE Or(fallback_company, capitalize(tld_domain(d)))

country_from_phone(phone) ==
    LET p == replace(Or(phone, <<>>), <<" ">>, <<>>)
        hits == {i \in DOMAIN COUNTRY_PREFIX : startswith(p, COUNTRY_PREFIX[i].v)}
    IN  IF hits = {} THEN None
        ELSE LET code == COUNTRY_PREFIX[Min(hits)].v
             IN  COUNTRY_PREFIX[Min({j \in DOMAIN COUNTRY_PREFIX :
                                        COUNTRY_PREFIX[j].v = code})].k

-----------------------------------------------------------------------------
(* datetime.  A parsed datetime is [day, sec]: days since 1970-01-01 and   *)
(* seconds into the day; strptime gives Invalid where Python raises.       *)

Invalid == [day |-> -1, sec |-> -1]

\* days_since returns None: no whole number of days
NoDays == -1

IsDigits(s, lo, hi) ==
    /\ Len(s) >= lo /\ Len(s) <= hi
    /\ \A i \in 1..Len(s) : s[i] \in DOMAIN DigitVal

RECURSIVE int(_)
int(s) == IF s = <<>> THEN 0 ELSE 10 * int(SubSeq(s, 1, Len(s) - 1)) + DigitVal[s[Len(s)]]

IsLeap(y) == (y % 4 = 0 /\ y % 100 # 0) \/ y % 400 = 0

DaysInMonth(y, m) ==
    IF m = 2 THEN (IF IsLeap(y) THEN 29 ELSE 28)
    ELSE IF m \in {4, 6, 9, 11} THEN 30 ELSE 31

\* date(y, m, d).toordinal() - date(1970, 1, 1).toordinal()
days_from_civil(y, m, d) ==
    LET yy == IF m <= 2 THEN y - 1 ELSE y
        era == yy \div 400
        yoe == yy - era * 400
        mp == IF m > 2 THEN m - 3 ELSE m + 9
        doy == (153 * mp + 2) \div 5 + d - 1
        doe == yoe * 365 + yoe \div 4 - yoe \div 100 + doy
    IN  era * 146097 + doe - 719468

\* datetime(y, m, d) raises ValueError outside the calendar
ymd(y, m, d) ==
    IF m \in 1..12 /\ d >= 1 /\ d <= DaysInMonth(y, m) THEN days_from_civil(y, m, d) ELSE -1

\* the date fields Y, m, d as texts: %Y is four digits, %m and %d one or two
civil(Y, m, d) ==
    IF IsDigits(Y, 4, 4) /\ IsDigits(m, 1, 2) /\ IsDigits(d, 1, 2)
    THEN ymd(int(Y), int(m), int(d))
    ELSE -1

\* the time fields as texts, one or two digits each; S is absent for %H:%M
clock(H, M, S) ==
    IF /\ IsDigits(H, 1, 2) /\ IsDigits(M, 1, 2) /\ IsDigits(S, 0, 2)
       /\ int(H) \in 0..23 /\ int(M) \in 0..59 /\ int(S) \in 0..59
    THEN 3600 * int(H) + 60 * int(M) + int(S)
    ELSE -1

\* datetime.strptime(s, fmt) for the four formats of days_since, by number
strptime(s, fmt) ==
    LET sp == split(s, " ")
        datepart == IF fmt \in {1, 3} THEN s ELSE sp[1]
        dp == split(datepart, IF fmt \in {1, 2} THEN "-" ELSE "/")
        tp == IF Len(sp) = 2 THEN split(sp[2], ":") ELSE <<>>
        day == IF Len(dp) # 3 THEN -1
               ELSE IF fmt \in {1, 2} THEN civil(dp[1], dp[2], dp[3])
               ELSE civil(dp[3], dp[2], dp[1])
        sec == IF fmt \in {1, 3} THEN 0
               ELSE IF Len(sp) # 2 THEN -1
               ELSE IF fmt = 2 /\ Len(tp) = 3 /\ tp[3] # <<>> THEN clock(tp[1], tp[2], tp[3])
               ELSE IF fmt = 4 /\ Len(tp) = 2 THEN clock(tp[1], tp[2], <<>>)
               ELSE -1
    IN  IF day < 0 \/ sec < 0 THEN Invalid ELSE [day |-> day, sec |-> sec]

\* (a - b).days: timedelta floors to whole days
delta_days(a, b) == (a.day - b.day) - (IF a.sec < b.sec THEN 1 ELSE 0)

\* the loop over the formats: the first that parses returns
first_parsed(p1, p2, p3, p4) ==
    IF p1 # Invalid THEN p1 ELSE IF p2 # Invalid THEN p2 ELSE IF p3 # Invalid THEN p3 ELSE p4

\* max(0, (datetime.now(timezone.utc) - dt).days), None when nothing parsed
elapsed(dt) ==
    IF dt = Invalid THEN NoDays
    ELSE IF delta_days(now, dt) > 0 THEN delta_days(now, dt) ELSE 0

days_since(dt_str) ==
    IF ~truthy(dt_str) THEN NoDays
    ELSE elapsed(first_parsed(strptime(dt_str, 1), strptime(dt_str, 2),
                              strptime(dt_str, 3), strptime(dt_str, 4)))

-----------------------------------------------------------------------------
(* Scoring *)

\* clamp without the upper limit: a faulty variant
clamp_below_only(base) == IF base < 0 THEN 0 ELSE base

clamp(base) == IF base > 95 THEN 95 ELSE IF base < 0 THEN 0 ELSE base

\* recency with d < 1 for d <= 1: a faulty variant
recency_strict(d) ==
    IF d = NoDays THEN 0
    ELSE IF d < 1 THEN 6
    ELSE IF d <= 7 THEN 2
    ELSE IF d > 30 THEN -4
    ELSE 0

\* lines 145-148: the recency term for d = days_since(created_at)
recency(d) ==
    IF d = NoDays THEN 0
    ELSE IF d <= 1 THEN 6
    ELSE IF d <= 7 THEN 2
    ELSE IF d > 30 THEN -4
    ELSE 0

\* len(co) >= 2 for the company name co, which may be empty
named(co) == truthy(co) /\ Len(co) >= 2

score_fit(intent, seniority_score, persona, email, phone, company_name, message, source, utm_source, created_at) ==
    LET b1 == IF intent = <<"d","e","m","o">> (* "demo" *) THEN 65
              ELSE IF intent = <<"r","e","s","o","u","r","c","e">> (* "resource" *) THEN 50
              ELSE 42
        b2 == b1 + 8 * seniority_score
        b3 == b2 + (IF persona \in TARGET_PERSONAS THEN 6 ELSE 0)
        b4 == b3 + (IF is_business_email(email) THEN 5 ELSE -4)
        b5 == b4 + (IF named(domain_to_company(email, Or(company_name, <<>>))) THEN 3 ELSE 0)
        b6 == b5 + dict_get(SOURCE_WEIGHTS, lower(Or(source, <<>>)), 0)
        b7 == b6 + (IF truthy(utm_source)
                    THEN dict_get(SOURCE_WEIGHTS, lower(utm_source), 0)
                    ELSE 0)
        b8 == b7 + (IF \E i \in DOMAIN URGENCY_KW :
                            contains(lower(Or(message, <<>>)), URGENCY_KW[i])
                    THEN 6 ELSE 0)
        b9 == b8 + (IF country_from_phone(Or(phone, <<>>)) \in PRIORITY_COUNTRIES
                    THEN 3 ELSE 0)
        b10 == b9 + recency(days_since(Or(created_at, <<>>)))
    IN  clamp(b10)

\* suggest_workflow with the two thresholds exchanged: a faulty variant
suggest_workflow_swapped(intent, score) ==
    IF intent = <<"d","e","m","o">> (* "demo" *) /\ score >= 58 THEN <<"R","é","p","o","n","s","e"," ","r","a","p","i","d","e">> (* "Réponse rapide" *)
    ELSE IF intent = <<"r","e","s","o","u","r","c","e">> (* "resource" *) /\ score >= 68 THEN <<"N","u","r","t","u","r","i","n","g"," ","d","o","u","x">> (* "Nurturing doux" *)
    ELSE <<"S","a","f","e"," ","h","o","u","r","s">> (* "Safe hours" *)

suggest_workflow(intent, score) ==
    IF intent = <<"d","e","m","o">> (* "demo" *) /\ score >= 68 THEN <<"R","é","p","o","n","s","e"," ","r","a","p","i","d","e">> (* "Réponse rapide" *)
    ELSE IF intent = <<"r","e","s","o","u","r","c","e">> (* "resource" *) /\ score >= 58 THEN <<"N","u","r","t","u","r","i","n","g"," ","d","o","u","x">> (* "Nurturing doux" *)
    ELSE <<"S","a","f","e"," ","h","o","u","r","s">> (* "Safe hours" *)

-----------------------------------------------------------------------------
(* Core classification & summary.  A DataFrame is the sequence of its rows; *)
(* a row is a record over the frame's columns whose cells are str or NaN.   *)

\* str(row.get(key, "") or "")
cell(row, key) == str(Or(IF key \in DOMAIN row THEN row[key] ELSE <<>>, <<>>))

\* the body of the loop of classify_leads: the dict appended for one row
classify_row(row) ==
    LET title == cell(row, "job_title")
        msg == cell(row, "message")
        source == cell(row, "source")
        utm_s == cell(row, "utm_source")
        company == cell(row, "company_name")
        phone == cell(row, "phone")
        email == cell(row, "email")
        created == cell(row, "created_at")
        first == cell(row, "first_name")
        last == cell(row, "last_name")
        parsed == parse_title(title)
        intent == detect_intent(source, cell(row, "form_name"), msg)
        score == score_fit(intent, parsed[2], parsed[3], email, phone, company,
                           msg, source, utm_s, created)
    IN  [name |-> strip(first \o <<" ">> \o last),
         email |-> email,
         company |-> Or(company, domain_to_company(email, <<>>)),
         job_title |-> title,
         persona |-> parsed[3],
         seniority |-> parsed[1],
         intent |-> intent,
         score |-> score,
         workflow_suggested |-> suggest_workflow(intent, score),
         country |-> Or(country_from_phone(phone), None),
         business_email |-> is_business_email(email)]

\* the loop with a company name that is not reset between rows: a faulty variant
RECURSIVE classify_loop_carry(_, _, _)
classify_loop_carry(rows, i, results) ==
    IF i > Len(rows) THEN results
    ELSE classify_loop_carry(rows, i + 1,
            Append(results,
                   [classify_row(rows[i]) EXCEPT
                        !.company = IF @ = <<>> /\ results # <<>>
                                    THEN results[Len(results)].company ELSE @]))

\* the loop of classify_leads from row i on, results being the list so far
RECURSIVE classify_loop(_, _, _)
classify_loop(rows, i, results) ==
    IF i > Len(rows) THEN results
    ELSE classify_loop(rows, i + 1, Append(results, classify_row(rows[i])))

classify_leads(frame) == classify_loop(frame, 1, <<>>)

\* d[key] = 1, the count forgotten: a faulty variant
dict_inc_reset(d, key) ==
    IF \E i \in DOMAIN d : d[i].k = key
    THEN [i \in DOMAIN d |-> IF d[i].k = key THEN [k |-> key, v |-> 1] ELSE d[i]]
    ELSE Append(d, [k |-> key, v |-> 1])

\* d[key] = d.get(key, 0) + 1
dict_inc(d, key) ==
    IF \E i \in DOMAIN d : d[i].k = key
    THEN [i \in DOMAIN d |-> IF d[i].k = key THEN [k |-> key, v |-> d[i].v + 1] ELSE d[i]]
    ELSE Append(d, [k |-> key, v |-> 1])

\* the dict counting the keys of a list, filled in list order
RECURSIVE tally(_)
tally(keys) ==
    IF keys = <<>> THEN <<>>
    ELSE dict_inc(tally(SubSeq(keys, 1, Len(keys) - 1)), keys[Len(keys)])

\* max(d, key=d.get): the first key, in insertion order, of the largest count
dict_argmax(d) ==
    d[Min({i \in DOMAIN d : \A j \in DOMAIN d : d[j].v <= d[i].v})].k

RECURSIVE sum(_)
sum(xs) == IF xs = <<>> THEN 0 ELSE xs[1] + sum(Tail(xs))

\* round(n / d, 0) as Python rounds: to nearest, ties to even
round_div(n, d) ==
    LET q == n \div d
        r == n % d
    IN  IF 2 * r < d THEN q
        ELSE IF 2 * r > d THEN q + 1
        ELSE IF q % 2 = 0 THEN q ELSE q + 1

\* round(random.uniform(0.22, 0.35), 2), in hundredths
RESP_RATES == 22..35

INSIGHT_DEFAULT == [msg |-> "Analyse initiale effectuée.", arg |-> <<>>]

\* the insights without their default: a faulty variant
without_default(insights) == insights

\* insights or ["Analyse initiale effectuée."]
with_default(insights) == IF insights # <<>> THEN insights ELSE <<INSIGHT_DEFAULT>>

\* summarize(leads) when the random draw gives resp_rate.  response_rate is in
\* hundredths; avg_score and business_email_ratio are in tenths.
summarize(ls, resp_rate) ==
    LET total == Len(ls)
        hot == Cardinality({i \in DOMAIN ls : ls[i].score >= 70})
        intent_dist == tally([i \in DOMAIN ls |-> ls[i].intent])
        persona_dist == tally([i \in DOMAIN ls |-> ls[i].persona])
        seniority_dist == tally([i \in DOMAIN ls |-> ls[i].seniority])
        country_dist == tally(SelectSeq([i \in DOMAIN ls |-> ls[i].country], truthy))
        workflow_dist == tally(SelectSeq([i \in DOMAIN ls |-> ls[i].workflow_suggested], truthy))
        business_emails == Cardinality({i \in DOMAIN ls : ls[i].business_email})
        scores == [i \in DOMAIN ls |-> ls[i].score]
        avg_score == IF scores # <<>> THEN round_div(10 * sum(scores), Len(scores)) ELSE 0
        business_ratio == IF total > 0 THEN round_div(1000 * business_emails, total) ELSE 0
        freshness == <<[k |-> "last_24h", v |-> None], [k |-> "last_7d", v |-> None],
                       [k |-> "last_30d", v |-> None], [k |-> "older", v |-> None]>>
        i1 == IF avg_score >= 650
              THEN <<[msg |-> "Qualité moyenne élevée des leads (score moyen >= 65).", arg |-> <<>>]>>
              ELSE <<>>
        i2 == IF dict_get(intent_dist, <<"d","e","m","o">> (* "demo" *), 0) > dict_get(intent_dist, <<"r","e","s","o","u","r","c","e">> (* "resource" *), 0)
              THEN <<[msg |-> "Plus de demandes démo que de téléchargements de ressources.", arg |-> <<>>]>>
              ELSE <<>>
        i3 == IF business_ratio >= 700
              THEN <<[msg |-> "Majorité d'emails professionnels (>= 70%).", arg |-> <<>>]>>
              ELSE <<>>
        i4 == IF persona_dist # <<>> /\ truthy(dict_argmax(persona_dist))
              THEN <<[msg |-> "Persona dominant détecté : {top_persona}.",
                      arg |-> dict_argmax(persona_dist)]>>
              ELSE <<>>
        i5 == IF country_dist # <<>>
              THEN <<[msg |-> "Flux principal en {top_country}.",
                      arg |-> dict_argmax(country_dist)]>>
              ELSE <<>>
        found == i1 \o i2 \o i3 \o i4 \o i5
        max(a, b) == IF a >= b THEN a ELSE b
        min(a, b) == IF a <= b THEN a ELSE b
        workflow_status ==
            <<[action |-> "SMS envoyé", count |-> min(hot, max(5, hot \div 2))],
              [action |-> "Email IA envoyé", count |-> max(3, total \div 4)],
              [action |-> "Réponses reçues", count |-> max(1, total \div 20)]>>
    IN  [leads_total |-> total,
         leads_hot |-> hot,
         response_rate |-> resp_rate,
         avg_score |-> avg_score,
         business_email_ratio |-> business_ratio,
         intent_distribution |-> intent_dist,
         persona_distribution |-> persona_dist,
         seniority_distribution |-> seniority_dist,
         country_distribution |-> country_dist,
         workflows_distribution |-> workflow_dist,
         freshness_buckets |-> freshness,
         workflow_status |-> workflow_status,
         insights |-> with_default(found)]

-----------------------------------------------------------------------------
(* CSV import.  pd.read_csv is the outside world: WEB gives the frame      *)
(* found behind each address that can be read; any other address raises.   *)

FIELDS == {"first_name", "last_name", "email", "phone", "job_title", "company_name",
           "message", "source", "utm_source", "form_name", "created_at"}

\* the row of spec section 8
ROW_VP == [first_name |-> <<>>, last_name |-> <<>>, email |-> <<"j","@","b","i","g","c","o",".","c","o","m">> (* "j@bigco.com" *),
           phone |-> <<"+","3","3","6","1","2","3","4","5","6","7","8">> (* "+33612345678" *), job_title |-> <<"V","P"," ","M","a","r","k","e","t","i","n","g">> (* "VP Marketing" *),
           company_name |-> <<>>, message |-> <<"p","l","e","a","s","e"," ","c","a","l","l"," ","m","e"," ","a","s","a","p">> (* "please call me asap" *),
           source |-> <<"l","i","n","k","e","d","i","n">> (* "linkedin" *), utm_source |-> <<>>, form_name |-> <<>>,
           created_at |-> <<"2","0","2","6","-","1","1","-","0","6">> (* "2026-11-06" *)]

\* a row with empty cells, as read_csv yields them
ROW_NAN == [first_name |-> <<"A","n","a">> (* "Ana" *), last_name |-> NaN, email |-> <<"a","@","g","m","a","i","l",".","c","o","m">> (* "a@gmail.com" *),
            phone |-> NaN, job_title |-> <<"S","a","l","e","s"," ","M","a","n","a","g","e","r">> (* "Sales Manager" *), company_name |-> NaN,
            message |-> <<"s","e","n","d"," ","m","e"," ","t","h","e"," ","e","b","o","o","k">> (* "send me the ebook" *), source |-> <<"F","a","c","e","b","o","o","k">> (* "Facebook" *),
            utm_source |-> <<"g","o","o","g","l","e">> (* "google" *), form_name |-> NaN,
            created_at |-> <<"0","1","/","0","9","/","2","0","2","6">> (* "01/09/2026" *)]

ROW_INTERN == [first_name |-> <<"B","o">> (* "Bo" *), last_name |-> <<"L","i">> (* "Li" *), email |-> <<"n","o","t","-","a","n","-","e","m","a","i","l">> (* "not-an-email" *),
               phone |-> <<"+","1"," ","5","5","5"," ","0","1","0","0">> (* "+1 555 0100" *), job_title |-> <<"i","n","t","e","r","n">> (* "intern" *), company_name |-> <<>>,
               message |-> <<>>, source |-> <<>>, utm_source |-> <<>>,
               form_name |-> <<"B","o","o","k"," ","a"," ","d","e","m","o">> (* "Book a demo" *), created_at |-> <<"g","a","r","b","a","g","e">> (* "garbage" *)]

ROW_EMPTY == [f \in FIELDS |-> <<>>]

ROW_GUIDE == [first_name |-> <<>>, last_name |-> <<"R","o","y">> (* "Roy" *), email |-> <<"x","@","y","a","h","o","o",".","c","o","m">> (* "x@yahoo.com" *),
              phone |-> <<"+","3","2"," ","4","7","0"," ","1","2">> (* "+32 470 12" *), job_title |-> <<"A","s","s","i","s","t","a","n","t"," ","m","a","r","k","e","t","i","n","g">> (* "Assistant marketing" *),
              company_name |-> <<"A","c","m","e">> (* "Acme" *), message |-> <<"g","u","i","d","e">> (* "guide" *),
              source |-> <<>>, utm_source |-> <<"w","e","b","f","l","o","w">> (* "webflow" *), form_name |-> <<>>,
              created_at |-> <<"2","0","2","6","-","1","1","-","0","4"," ","1","0",":","0","0",":","0","0">> (* "2026-11-04 10:00:00" *)]

URL_SHEET == <<"g",".","c","o","/","s","p","r","e","a","d","s","h","e","e","t","s","/","d","/","a","/","e","d","i","t","#","g","i","d","=","0">> (* "g.co/spreadsheets/d/a/edit#gid=0" *)
URL_EXPORT == <<"x",".","i","o","/","e","x","p","o","r","t","?","f","o","r","m","a","t","=","c","s","v">> (* "x.io/export?format=csv" *)
URL_EMPTY == <<"g",".","c","o","/","s","p","r","e","a","d","s","h","e","e","t","s","/","d","/","e","/","e","d","i","t","#","g","i","d","=","0">> (* "g.co/spreadsheets/d/e/edit#gid=0" *)
URL_GONE == <<"g",".","c","o","/","s","p","r","e","a","d","s","h","e","e","t","s","/","d","/","z","z","/","e","d","i","t","#","g","i","d","=","0">> (* "g.co/spreadsheets/d/zz/edit#gid=0" *)
URL_OTHER == <<"x",".","i","o","/","l","e","a","d","s",".","c","s","v">> (* "x.io/leads.csv" *)

WEB == <<
    [k |-> <<"g",".","c","o","/","s","p","r","e","a","d","s","h","e","e","t","s","/","d","/","a","/","e","x","p","o","r","t","?","f","o","r","m","a","t","=","c","s","v","&","g","i","d","=","0">> (* "g.co/spreadsheets/d/a/export?format=csv&gid=0" *),
     v |-> <<ROW_VP, ROW_NAN>>],
    [k |-> <<"x",".","i","o","/","e","x","p","o","r","t","?","f","o","r","m","a","t","=","c","s","v">> (* "x.io/export?format=csv" *), v |-> <<ROW_INTERN>>],
    [k |-> <<"g",".","c","o","/","s","p","r","e","a","d","s","h","e","e","t","s","/","d","/","e","/","e","x","p","o","r","t","?","f","o","r","m","a","t","=","c","s","v","&","g","i","d","=","0">> (* "g.co/spreadsheets/d/e/export?format=csv&gid=0" *), v |-> <<>>] >>

\* what get_csv_from_gsheet raises
HTTP400_SHEET == [status |-> 400, detail |-> "Erreur lecture Google Sheet"]
HTTP400_URL == [status |-> 400, detail |-> "Champ 'url' requis."]

\* [ok, df]: the frame read, or ok = FALSE where HTTPException(400) is raised
get_csv_from_gsheet(url) ==
    LET read_csv(u) ==
            IF \E i \in DOMAIN WEB : WEB[i].k = u
            THEN [ok |-> TRUE, df |-> dict_get(WEB, u, <<>>)]
            ELSE [ok |-> FALSE, df |-> <<>>]
    IN  IF contains(url, <<"s","p","r","e","a","d","s","h","e","e","t","s">> (* "spreadsheets" *))
        THEN read_csv(replace(url, <<"/","e","d","i","t","#","g","i","d","=">> (* "/edit#gid=" *), <<"/","e","x","p","o","r","t","?","f","o","r","m","a","t","=","c","s","v","&","g","i","d","=">> (* "/export?format=csv&gid=" *)))
        ELSE IF contains(url, <<"e","x","p","o","r","t","?","f","o","r","m","a","t","=","c","s","v">> (* "export?format=csv" *))
        THEN read_csv(url)
        ELSE [ok |-> FALSE, df |-> <<>>]

-----------------------------------------------------------------------------
(* API endpoints *)

DASHBOARD_DEFAULT ==
    [leads_total |-> 0,
     leads_hot |-> 0,
     response_rate |-> 0,
     avg_score |-> 0,
     business_email_ratio |-> 0,
     intent_distribution |-> <<>>,
     persona_distribution |-> <<>>,
     seniority_distribution |-> <<>>,
     country_distribution |-> <<>>,
     workflows_distribution |-> <<>>,
     freshness_buckets |-> <<>>,
     workflow_status |-> <<[action |-> "SMS envoyé", count |-> 0],
                           [action |-> "Email IA envoyé", count |-> 0]>>,
     insights |-> <<[msg |-> "Aucune analyse disponible. Importez d'abord des leads.",
                     arg |-> <<>>]>>]

PAYLOADS ==
    {[other |-> <<>>]} \cup
    {[url |-> u] : u \in {<<>>, URL_SHEET, URL_EXPORT, URL_EMPTY, URL_GONE, URL_OTHER}}

\* GET /
root ==
    /\ pc = "serving"
    /\ response' = [endpoint |-> "root", status |-> 200, body |-> [status |-> "ok"]]
    /\ UNCHANGED <<now, pc, fn, args, ret, df, leads, summary, df2, leads2,
                   LAST_SUMMARY, lastImported>>

\* the slot after a request that raises before line 284
slot_on_error(slot) == slot

\* POST /api/leads/import
import_leads(payload) ==
    LET url == IF "url" \in DOMAIN payload THEN payload.url ELSE None
        got == get_csv_from_gsheet(url)
    IN  /\ pc = "serving"
        /\ IF ~truthy(url)
           THEN /\ response' = [endpoint |-> "import", status |-> 400, body |-> HTTP400_URL]
                /\ LAST_SUMMARY' = slot_on_error(LAST_SUMMARY)
                /\ UNCHANGED lastImported
           ELSE IF ~got.ok
           THEN /\ response' = [endpoint |-> "import", status |-> 400, body |-> HTTP400_SHEET]
                /\ LAST_SUMMARY' = slot_on_error(LAST_SUMMARY)
                /\ UNCHANGED lastImported
           ELSE \E ls \in {classify_leads(got.df)} :
                \E s \in {summarize(ls, r) : r \in RESP_RATES} :
                    /\ LAST_SUMMARY' = s
                    /\ lastImported' = s
                    /\ response' = [endpoint |-> "import", status |-> 200,
                                    body |-> [leads |-> ls, summary |-> s]]
        /\ UNCHANGED <<now, pc, fn, args, ret, df, leads, summary, df2, leads2>>

\* the dashboard taking a summary of no leads for no summary: a faulty variant
dashboard_body_nonempty(slot) ==
    IF slot # Nil /\ slot.leads_total > 0 THEN slot ELSE DASHBOARD_DEFAULT

\* what GET /api/dashboard/summary returns for a slot
dashboard_body(slot) == IF slot # Nil THEN slot ELSE DASHBOARD_DEFAULT

\* GET /api/dashboard/summary
dashboard_summary ==
    /\ pc = "serving"
    /\ response' = [endpoint |-> "dashboard", status |-> 200,
                    body |-> dashboard_body(LAST_SUMMARY)]
    /\ UNCHANGED <<now, pc, fn, args, ret, df, leads, summary, df2, leads2,
                   LAST_SUMMARY, lastImported>>

-----------------------------------------------------------------------------
(* Direct calls of the functions, on arguments drawn from the sets below.  *)

MaxRows == 2

NOW_CHOICES == {[day |-> days_from_civil(2026, 11, 6), sec |-> 48600],
                [day |-> days_from_civil(2026, 11, 6), sec |-> 600]}

TITLES == {None, <<>>, <<"C","E","O"," ","&"," ","F","o","u","n","d","e","r">> (* "CEO & Founder" *), <<"V","P"," ","M","a","r","k","e","t","i","n","g">> (* "VP Marketing" *), <<"D","i","r","e","c","t","e","u","r"," ","M","a","r","k","e","t","i","n","g">> (* "Directeur Marketing" *),
           <<"S","a","l","e","s"," ","M","a","n","a","g","e","r">> (* "Sales Manager" *), <<"i","n","t","e","r","n">> (* "intern" *), <<"H","e","a","d"," ","o","f"," ","D","a","t","a">> (* "Head of Data" *), <<"C","o","-","F","o","u","n","d","e","r">> (* "Co-Founder" *), <<"n","a","n">> (* "nan" *),
           <<"C","u","s","t","o","m","e","r"," ","S","u","c","c","e","s","s"," ","L","e","a","d">> (* "Customer Success Lead" *), <<"I","T"," ","e","n","g","i","n","e","e","r">> (* "IT engineer" *), <<"R","e","s","p","o","n","s","a","b","l","e"," ","a","c","h","a","t">> (* "Responsable achat" *)}

SCORE_ARGS ==
    [intent : {<<"d","e","m","o">> (* "demo" *), <<"r","e","s","o","u","r","c","e">> (* "resource" *), <<"o","t","h","e","r">> (* "other" *), <<"s","p","a","m">> (* "spam" *)},
     seniority_score : 0..3,
     persona : {<<"C","E","O">> (* "CEO" *), <<"O","t","h","e","r">> (* "Other" *)},
     email : {None, <<"j","@","b","i","g","c","o",".","c","o","m">> (* "j@bigco.com" *), <<"a","@","g","m","a","i","l",".","c","o","m">> (* "a@gmail.com" *)},
     phone : {None, <<"+","3","3"," ","6"," ","1","2"," ","3","4">> (* "+33 6 12 34" *)},
     company_name : {<<>>, <<"X">>},
     message : {None, <<"N","e","e","d"," ","i","t"," ","A","S","A","P">> (* "Need it ASAP" *)},
     source : {<<>>, <<"L","i","n","k","e","d","I","n">> (* "LinkedIn" *)},
     utm_source : {None, <<"g","o","o","g","l","e">> (* "google" *)},
     created_at : {None, <<"2","0","2","6","-","1","1","-","0","6">> (* "2026-11-06" *), <<"2","0","2","6","-","1","1","-","0","4"," ","1","0",":","0","0",":","0","0">> (* "2026-11-04 10:00:00" *), <<"0","1","/","0","9","/","2","0","2","6">> (* "01/09/2026" *),
                   <<"2","0","/","1","0","/","2","0","2","6"," ","0","9",":","3","0">> (* "20/10/2026 09:30" *)}]

SAMPLE_ROWS == {ROW_VP, ROW_NAN, ROW_INTERN, ROW_EMPTY, ROW_GUIDE}

\* the columns of the row of spec section 8
COLUMNS_VP == {"job_title", "email", "phone", "message", "source", "created_at"}

COLUMN_SETS == {FIELDS, COLUMNS_VP}

\* the frames of at most MaxRows sample rows, over either set of columns
DATAFRAMES ==
    {[i \in 1..n |-> [f \in cols |-> rs[i][f]]] :
        <<n, cols, rs>> \in UNION {{<<n, cols, rs>> : cols \in COLUMN_SETS,
                                     rs \in [1..n -> SAMPLE_ROWS]} : n \in 0..MaxRows}}

Idle ==
    /\ fn = "" /\ args = Nil /\ ret = Nil
    /\ df = <<>> /\ leads = <<>> /\ summary = Nil /\ df2 = <<>> /\ leads2 = <<>>

InitCalls ==
    /\ now \in NOW_CHOICES
    /\ pc = "call"
    /\ \/ fn = "parse_title" /\ args \in [title : TITLES] /\ df = <<>>
       \/ fn = "score_fit" /\ args \in SCORE_ARGS /\ df = <<>>
       \/ fn = "classify_leads" /\ args = Nil /\ df \in DATAFRAMES
    /\ ret = Nil /\ leads = <<>> /\ summary = Nil /\ df2 = <<>> /\ leads2 = <<>>
    /\ LAST_SUMMARY = Nil /\ response = Nil /\ lastImported = Nil

ParseTitle ==
    /\ pc = "call" /\ fn = "parse_title"
    /\ ret' = parse_title(args.title)
    /\ pc' = "returned"
    /\ UNCHANGED <<now, fn, args, df, leads, summary, df2, leads2,
                   LAST_SUMMARY, response, lastImported>>

ScoreFit ==
    /\ pc = "call" /\ fn = "score_fit"
    /\ ret' = score_fit(args.intent, args.seniority_score, args.persona, args.email,
                        args.phone, args.company_name, args.message, args.source,
                        args.utm_source, args.created_at)
    /\ pc' = "returned"
    /\ UNCHANGED <<now, fn, args, df, leads, summary, df2, leads2,
                   LAST_SUMMARY, response, lastImported>>

ClassifyLeads ==
    /\ pc = "call" /\ fn = "classify_leads"
    /\ leads' = classify_leads(df)
    /\ pc' = "classified"
    /\ UNCHANGED <<now, fn, args, ret, df, summary, df2, leads2,
                   LAST_SUMMARY, response, lastImported>>

NextCalls == ParseTitle \/ ScoreFit \/ ClassifyLeads

SpecCalls == InitCalls /\ [][NextCalls]_vars

-----------------------------------------------------------------------------
(* A batch: classify_leads, then summarize; and classify_leads again on    *)
(* the same rows in another order.                                         *)

InitBatch ==
    /\ now \in NOW_CHOICES
    /\ pc = "call"
    /\ fn = "classify_leads" /\ args = Nil /\ df \in DATAFRAMES
    /\ ret = Nil /\ leads = <<>> /\ summary = Nil /\ df2 = <<>> /\ leads2 = <<>>
    /\ LAST_SUMMARY = Nil /\ response = Nil /\ lastImported = Nil

Summarize ==
    /\ pc = "classified"
    /\ \E r \in RESP_RATES : summary' = summarize(leads, r)
    /\ pc' = "summarized"
    /\ UNCHANGED <<now, fn, args, ret, df, leads, df2, leads2,
                   LAST_SUMMARY, response, lastImported>>

ClassifyShuffled ==
    /\ pc = "classified"
    /\ \E order \in Permutations(DOMAIN df) :
        \E shuffled \in {[i \in DOMAIN df |-> df[order[i]]]} :
            /\ df2' = shuffled
            /\ leads2' = classify_leads(shuffled)
    /\ pc' = "reclassified"
    /\ UNCHANGED <<now, fn, args, ret, df, leads, summary,
                   LAST_SUMMARY, response, lastImported>>

NextBatch == ClassifyLeads \/ Summarize \/ ClassifyShuffled

SpecBatch == InitBatch /\ [][NextBatch]_vars

-----------------------------------------------------------------------------
(* The service: requests arrive one at a time.                             *)

Init ==
    /\ now \in NOW_CHOICES
    /\ pc = "serving"
    /\ Idle
    /\ LAST_SUMMARY = Nil
    /\ response = Nil
    /\ lastImported = Nil

Next ==
    \/ root
    \/ \E payload \in PAYLOADS : import_leads(payload)
    \/ dashboard_summary

Spec == Init /\ [][Next]_vars

-----------------------------------------------------------------------------
(* Properties *)

Returned(f) == pc = "returned" /\ fn = f

\* C1: score_fit returns an integer s with 0 <= s <= 95 whatever its arguments,
\* so every lead that classify_leads produces has 0 <= score <= 95.
ScoreClamped ==
    /\ Returned("score_fit") => ret \in 0..95
    /\ \A i \in DOMAIN leads : leads[i].score \in 0..95

\* a call whose contributions sum to more than 95 has returned 95
ScoreClampActs ==
    /\ Returned("score_fit")
    /\ args.intent = <<"d","e","m","o">> (* "demo" *) /\ args.seniority_score = 3 /\ args.persona = <<"C","E","O">> (* "CEO" *)
    /\ args.email = <<"j","@","b","i","g","c","o",".","c","o","m">> (* "j@bigco.com" *)
    /\ ret = 95

\* the label of the first entry of PERSONA_MAP whose pattern matches t
PersonaByPattern(t) ==
    LET hits == {i \in DOMAIN PERSONA_MAP : re_search(PERSONA_MAP[i].pat, t)}
    IN  IF hits = {} THEN <<"O","t","h","e","r">> (* "Other" *) ELSE PERSONA_MAP[Min(hits)].p

\* C2: parse_title returns the persona of the first entry of the persona table
\* whose pattern matches the lower-cased title, "Other" when none matches;
\* parse_title("") is ("other", 0, "Other") and parse_title("CEO & Founder")
\* is ("exec", 3, "CEO").
ParseTitleByPatternTable ==
    Returned("parse_title") =>
        /\ ret[3] = PersonaByPattern(lower(Or(args.title, <<>>)))
        /\ args.title = <<>> => ret = <<<<"o","t","h","e","r">> (* "other" *), 0, <<"O","t","h","e","r">> (* "Other" *)>>
        /\ args.title = <<"C","E","O"," ","&"," ","F","o","u","n","d","e","r">> (* "CEO & Founder" *) => ret = <<<<"e","x","e","c">> (* "exec" *), 3, <<"C","E","O">> (* "CEO" *)>>

\* the frame whose single row is the row of spec section 8, created today
FRAME_VP == <<[f \in COLUMNS_VP |-> ROW_VP[f]]>>

VpRowClassifiedNow ==
    /\ pc = "classified" /\ df = FRAME_VP
    /\ strptime(df[1].created_at, 1).day = now.day

\* C3 as stated: the row of spec section 8 is classified exec, Marketing,
\* intent "other", score 95, "Safe hours".
VpRowAsSpecified ==
    VpRowClassifiedNow =>
        /\ Len(leads) = 1
        /\ leads[1].seniority = <<"e","x","e","c">> (* "exec" *)
        /\ leads[1].persona = <<"M","a","r","k","e","t","i","n","g">> (* "Marketing" *)
        /\ leads[1].intent = <<"o","t","h","e","r">> (* "other" *)
        /\ leads[1].score = 95
        /\ leads[1].workflow_suggested = <<"S","a","f","e"," ","h","o","u","r","s">> (* "Safe hours" *)

\* C3 amended: the row of spec section 8 is classified exec with intent "demo"
\* (its message holds the demo keyword "call"), score 95, "Réponse rapide".
VpRowIsDemo ==
    VpRowClassifiedNow =>
        /\ Len(leads) = 1
        /\ leads[1].seniority = <<"e","x","e","c">> (* "exec" *)
        /\ leads[1].intent = <<"d","e","m","o">> (* "demo" *)
        /\ leads[1].score = 95
        /\ leads[1].workflow_suggested = <<"R","é","p","o","n","s","e"," ","r","a","p","i","d","e">> (* "Réponse rapide" *)

\* df with every column present and every empty cell the empty string
Filled(frame) ==
    [i \in DOMAIN frame |->
        [f \in FIELDS |->
            IF f \in DOMAIN frame[i] /\ frame[i][f] # NaN THEN frame[i][f] ELSE <<>>]]

\* C4: classify_leads gives the same leads whether a field is absent, an empty
\* cell or the empty string.
MissingIsEmpty ==
    pc = "classified" => leads = classify_leads(Filled(df))

EmptySummarized == pc = "summarized" /\ leads = <<>>

\* C5 as stated: summarize([]) has leads_total 0, response_rate, avg_score and
\* business_email_ratio all 0.0, and the default insight alone.
EmptySummaryAllZero ==
    EmptySummarized =>
        /\ summary.leads_total = 0
        /\ summary.response_rate = 0
        /\ summary.avg_score = 0
        /\ summary.business_email_ratio = 0
        /\ summary.insights = <<INSIGHT_DEFAULT>>

\* C5 amended: summarize([]) has leads_total 0, avg_score and
\* business_email_ratio 0.0, the default insight alone, and a response_rate
\* that is the random placeholder, between 0.22 and 0.35.
EmptySummary ==
    EmptySummarized =>
        /\ summary.leads_total = 0
        /\ summary.response_rate \in 22..35
        /\ summary.avg_score = 0
        /\ summary.business_email_ratio = 0
        /\ summary.insights = <<INSIGHT_DEFAULT>>

RECURSIVE Total(_)
Total(d) == IF d = <<>> THEN 0 ELSE d[1].v + Total(Tail(d))

\* C6: the summary of the leads L of classify_leads conserves counts:
\* leads_total = |L|, leads_hot is the number of scores >= 70 and at most
\* leads_total, the intent, persona, seniority and workflow counts each sum to
\* |L|, and the country counts sum to the number of leads with a country.
CountsConserved ==
    pc = "summarized" =>
        /\ summary.leads_total = Len(leads)
        /\ summary.leads_hot = Cardinality({i \in DOMAIN leads : leads[i].score >= 70})
        /\ summary.leads_hot <= summary.leads_total
        /\ Total(summary.intent_distribution) = Len(leads)
        /\ Total(summary.persona_distribution) = Len(leads)
        /\ Total(summary.seniority_distribution) = Len(leads)
        /\ Total(summary.workflows_distribution) = Len(leads)
        /\ Total(summary.country_distribution) =
                Cardinality({i \in DOMAIN leads : leads[i].country # None})

\* two leads share a persona, one is hot and has a country, the other neither
CountsShared ==
    /\ pc = "summarized" /\ Len(leads) = 2
    /\ leads[1].persona = leads[2].persona
    /\ leads[1].country # None /\ leads[2].country = None
    /\ leads[1].score >= 70 /\ leads[2].score < 70
    /\ summary.leads_hot = 1
    /\ Len(summary.persona_distribution) = 1
    /\ Len(summary.country_distribution) = 1

SourceWeight(source) == dict_get(SOURCE_WEIGHTS, lower(Or(source, <<>>)), 0)

\* the sum of the contributions of claim C7 for the arguments a
Contributions(a) ==
    (IF a.intent = <<"d","e","m","o">> (* "demo" *) THEN 65 ELSE IF a.intent = <<"r","e","s","o","u","r","c","e">> (* "resource" *) THEN 50 ELSE 42)
    + 8 * a.seniority_score
    + (IF a.persona \in TARGET_PERSONAS THEN 6 ELSE 0)
    + (IF is_business_email(a.email) THEN 5 ELSE -4)
    + (IF Len(Or(domain_to_company(a.email, a.company_name), <<>>)) >= 2 THEN 3 ELSE 0)
    + SourceWeight(a.source)
    + (IF Or(a.utm_source, <<>>) # <<>> THEN SourceWeight(a.utm_source) ELSE 0)
    + (IF \E i \in DOMAIN URGENCY_KW : contains(lower(Or(a.message, <<>>)), URGENCY_KW[i])
       THEN 6 ELSE 0)
    + (IF country_from_phone(a.phone) \in PRIORITY_COUNTRIES THEN 3 ELSE 0)
    + (LET d == days_since(a.created_at)
       IN  IF d = NoDays THEN 0
           ELSE IF d \in 0..1 THEN 6
           ELSE IF d \in 2..7 THEN 2
           ELSE IF d \in 8..30 THEN 0
           ELSE -4)

\* C7: score_fit returns the sum of the contributions (base by intent,
\* 8 x seniority, target persona, business email, company name, source weight,
\* utm_source weight on top of it, urgency, priority country, recency) clamped
\* to [0, 95].
ScoreIsSumOfContributions ==
    Returned("score_fit") =>
        ret = (IF Contributions(args) > 95 THEN 95
               ELSE IF Contributions(args) < 0 THEN 0
               ELSE Contributions(args))

\* source and utm_source both weigh in a score that is not clamped, one day on
ScoreAddsBothSources ==
    /\ Returned("score_fit")
    /\ args.source = <<"L","i","n","k","e","d","I","n">> (* "LinkedIn" *) /\ args.utm_source = <<"g","o","o","g","l","e">> (* "google" *)
    /\ days_since(args.created_at) = 1
    /\ ret < 95
    /\ ret = Contributions([args EXCEPT !.utm_source = None]) + 7

\* C8: a lead's workflow_suggested is "Réponse rapide" exactly when its intent
\* is "demo" and its score >= 68, "Nurturing doux" exactly when its intent is
\* "resource" and its score >= 58, and "Safe hours" otherwise.
WorkflowByIntentAndScore ==
    \A i \in DOMAIN leads :
        /\ leads[i].workflow_suggested = <<"R","é","p","o","n","s","e"," ","r","a","p","i","d","e">> (* "Réponse rapide" *)
            <=> (leads[i].intent = <<"d","e","m","o">> (* "demo" *) /\ leads[i].score >= 68)
        /\ leads[i].workflow_suggested = <<"N","u","r","t","u","r","i","n","g"," ","d","o","u","x">> (* "Nurturing doux" *)
            <=> (leads[i].intent = <<"r","e","s","o","u","r","c","e">> (* "resource" *) /\ leads[i].score >= 58)
        /\ leads[i].workflow_suggested = <<"S","a","f","e"," ","h","o","u","r","s">> (* "Safe hours" *)
            <=> ~ \/ (leads[i].intent = <<"d","e","m","o">> (* "demo" *) /\ leads[i].score >= 68)
                  \/ (leads[i].intent = <<"r","e","s","o","u","r","c","e">> (* "resource" *) /\ leads[i].score >= 58)

\* a demo lead under 68 and a resource lead under 58 were sent to "Safe hours"
WorkflowBelowThresholds ==
    /\ Len(leads) = 2
    /\ leads[1].intent = <<"d","e","m","o">> (* "demo" *) /\ leads[1].score \in 58..67
    /\ leads[1].workflow_suggested = <<"S","a","f","e"," ","h","o","u","r","s">> (* "Safe hours" *)
    /\ leads[2].intent = <<"r","e","s","o","u","r","c","e">> (* "resource" *) /\ leads[2].score < 58
    /\ leads[2].workflow_suggested = <<"S","a","f","e"," ","h","o","u","r","s">> (* "Safe hours" *)

BagOfSeq(s) == [x \in Range(s) |-> Cardinality({i \in DOMAIN s : s[i] = x})]

\* C9: classifying the rows of a frame in another order gives the same
\* multiset of leads, and the lead of a row is the lead of that row alone.
ShuffleSameLeads ==
    pc = "reclassified" =>
        /\ BagOfSeq(leads2) = BagOfSeq(leads)
        /\ \A i \in DOMAIN df : leads[i] = classify_leads(<<df[i]>>)[1]

\* two different rows were classified in both orders
ShuffledTwoRows ==
    /\ pc = "reclassified" /\ Len(df) = 2
    /\ df2 = <<df[2], df[1]>> /\ df2 # df
    /\ leads2 = <<leads[2], leads[1]>>

\* C10: the slot holds the summary of the last import that succeeded, and none
\* before the first; dashboard_summary returns it, and the fixed default while
\* there is none; an import that fails with HTTP 400 and dashboard_summary
\* leave the slot as it was.
LastWriteWins ==
    /\ LAST_SUMMARY = lastImported
    /\ response # Nil /\ response.endpoint = "dashboard" =>
            response.body = IF lastImported = Nil THEN DASHBOARD_DEFAULT ELSE lastImported
    /\ response # Nil /\ response.endpoint = "import" /\ response.status = 200 =>
            response.body.summary = lastImported

\* the dashboard is read after an import of a sheet without rows
DashboardAfterEmptyImport ==
    /\ response # Nil /\ response.endpoint = "dashboard"
    /\ lastImported # Nil /\ lastImported.leads_total = 0
    /\ response.body = lastImported
====
